---- MODULE Spec2Model ----
(***************************************************************************)
(* The buffer cache (kernel/bio.c) and the physical page allocator         *)
(* (kernel/kalloc.c) of the xv6 lock lab, as two state machines over one   *)
(* set of variables: SpecBio runs the buffer cache, SpecKmem the           *)
(* allocator.                                                              *)
(*                                                                         *)
(* Kernel tasks run on several cores in parallel.  Every access to shared  *)
(* memory that is not ordered by a common lock is a step of its own, so    *)
(* that the interleavings of the cores are the behaviours of the model.    *)
(* b->refcnt++ and b->refcnt-- are a load into a register and a store.     *)
(***************************************************************************)
EXTENDS Integers, Sequences, FiniteSets, TLC

\* ---------------------------------------------------------------- bounds
NTASK == 2          \* kernel tasks using the buffer cache
NBUF == 2           \* param.h NBUF, scaled down
NBUCKET == 2        \* param.h NBUCKET, scaled down
MaxDev == 1         \* device numbers 0..MaxDev
MaxBlockno == 1     \* block numbers 0..MaxBlockno
MaxCalls == 4       \* bread and bpin calls in one behaviour
MaxPins == 1        \* outstanding bpin calls per buffer
MaxTicks == 2       \* the clock stops here

NCPU == 3           \* param.h NCPU, scaled down
NPAGE == 2          \* whole pages in one core's partition
NKTASK == 2         \* kernel tasks using the allocator
EndOff == 8         \* how far the kernel's end lies past a page boundary

\* ---------------------------------------------------------------- memory
PGSIZE == 4096                       \* riscv.h
JUNK_FREE == -1                      \* a word of a page after memset(pa, 1, PGSIZE)
JUNK_ALLOC == -5                     \* a word of a page after memset(r, 5, PGSIZE)
End == PGSIZE + EndOff               \* end[], first address after the kernel
NMEM == NPAGE * PGSIZE + PGSIZE      \* memlayout.h: bytes of one core's partition
PHYSTOP == End - EndOff + NCPU * NMEM + PGSIZE

Tasks == 1..NTASK
KTasks == 1..NKTASK
Cpus == 0..(NCPU - 1)
Bufs == 0..(NBUF - 1)
Buckets == 0..(NBUCKET - 1)
Devs == 0..MaxDev
Blocknos == 0..MaxBlockno

VARIABLES
  \* struct buf, one function per field (bcache.buf[NBUF])
  dev, blockno, valid, refcnt, time,
  sleeplock,      \* b->lock: 0 when free, else the task holding it
  bucket_buf,     \* bcache.bucket[i].buf
  bucket_lock,    \* bcache.bucket[i].lock: 0 when free, else the holder
  bcache_lock,    \* bcache.lock: 0 when free, else the holder
  ticks,          \* the clock (trap.c), read by bget
  \* each task: where it is, and its locals
  pc, req_dev, req_blockno, i, b, reg,
  pins,           \* per buffer: bpin calls not yet matched by a bunpin
  calls,          \* bread and bpin calls so far
  panicked,       \* "" or the message of panic()
  \* kalloc.c: struct kmem[NCPU] and the pages
  freelist,       \* kmem[k].freelist: a page address, or 0
  knext,          \* per page: the word read as ((struct run*)page)->next
  klock,          \* kmem[k].lock: 0 when free, else the holder
  \* each allocator task: where it is, and its locals
  kpc, ki, kr, kj, kpa,
  kcpu,           \* the core the task's call runs on
  outstanding,    \* pages kalloc has returned and nobody has given to kfree
  kempty,         \* per task in kalloc: every free list was empty at some
                  \* instant since the call began
  \* history of the last kalloc made while no other call was running, and
  \* of the kfree and kalloc that followed it with nothing in between
  rt_phase,       \* "off", "alloc", "got", "free", "freed", "again", "regot"
  rt_lists,       \* the free lists when that kalloc was called
  rt_core,        \* the core that called it
  rt_page,        \* the page it returned
  rt_again        \* what the kalloc after the kfree returned

kvars == <<freelist, knext, klock, kpc, ki, kr, kj, kpa, kcpu, outstanding,
           kempty, rt_phase, rt_lists, rt_core, rt_page, rt_again>>
rtvars == <<rt_phase, rt_lists, rt_core, rt_page, rt_again>>

bvars == <<dev, blockno, valid, refcnt, time, sleeplock, bucket_buf,
           bucket_lock, bcache_lock, ticks, pc, req_dev, req_blockno, i, b,
           reg, pins, calls, panicked>>

vars == <<bvars, kvars>>

\* ---------------------------------------------------------------- helpers
\* uint arithmetic: a refcnt is kept as the signed integer congruent to it
\* modulo 2^32 (so -1 is 0xffffffff); within the bounds no value comes near
\* 2^31, and == 0 is the same test in both readings.
Incr(v) == v + 1
Decr(v) == v - 1

\* line 72 / line 86: b->dev == dev && b->blockno == blockno
KeyMatch(e, d, n) == dev[e] = d /\ blockno[e] = n

\* lines 84-96: the first entry, in index order, that has the key; NBUF if none
FullScanHit(d, n) ==
  IF \E e \in Bufs : KeyMatch(e, d, n)
  THEN CHOOSE e \in Bufs : KeyMatch(e, d, n) /\ \A f \in Bufs : KeyMatch(f, d, n) => e <= f
  ELSE NBUF

\* line 89: the shard a full-scan hit is installed in
ShardOf(e) == e % NBUCKET

\* ---------------------------------------------------------------- binit
BioInit ==
  /\ dev = [e \in Bufs |-> 0]
  /\ blockno = [e \in Bufs |-> 0]
  /\ valid = [e \in Bufs |-> FALSE]
  /\ refcnt = [e \in Bufs |-> 0]
  /\ time = [e \in Bufs |-> 0]
  /\ sleeplock = [e \in Bufs |-> 0]
  /\ bucket_buf = [k \in Buckets |-> k]
  /\ bucket_lock = [k \in Buckets |-> 0]
  /\ bcache_lock = 0
  /\ ticks = 0
  /\ pc = [t \in Tasks |-> "idle"]
  /\ req_dev = [t \in Tasks |-> 0]
  /\ req_blockno = [t \in Tasks |-> 0]
  /\ i = [t \in Tasks |-> 0]
  /\ b = [t \in Tasks |-> 0]
  /\ reg = [t \in Tasks |-> 0]
  /\ pins = [e \in Bufs |-> 0]
  /\ calls = 0
  /\ panicked = ""

\* ---------------------------------------------------------------- bget
\* bread(dev, blockno) calls bget(dev, blockno)
BreadCall(t, d, n) ==
  /\ pc[t] = "idle" /\ calls < MaxCalls
  /\ calls' = calls + 1
  /\ req_dev' = [req_dev EXCEPT ![t] = d]
  /\ req_blockno' = [req_blockno EXCEPT ![t] = n]
  /\ i' = [i EXCEPT ![t] = 0]
  /\ pc' = [pc EXCEPT ![t] = "f_acq"]
  /\ UNCHANGED <<kvars, dev, blockno, valid, refcnt, time, sleeplock, bucket_buf,
                 bucket_lock, bcache_lock, ticks, b, reg, pins, panicked>>

\* lines 70-71: acquire(&bcache.bucket[i].lock); b = bcache.bucket[i].buf
FastAcquire(t) ==
  /\ pc[t] = "f_acq" /\ bucket_lock[i[t]] = 0
  /\ bucket_lock' = [bucket_lock EXCEPT ![i[t]] = t]
  /\ b' = [b EXCEPT ![t] = bucket_buf[i[t]]]
  /\ pc' = [pc EXCEPT ![t] = "f_dev"]
  /\ UNCHANGED <<kvars, dev, blockno, valid, refcnt, time, sleeplock, bucket_buf,
                 bcache_lock, ticks, req_dev, req_blockno, i, reg, pins,
                 calls, panicked>>

\* line 72, left operand: b->dev == dev
FastCmpDev(t) ==
  /\ pc[t] = "f_dev"
  /\ pc' = [pc EXCEPT ![t] = IF dev[b[t]] = req_dev[t] THEN "f_blockno" ELSE "f_rel"]
  /\ UNCHANGED <<kvars, dev, blockno, valid, refcnt, time, sleeplock, bucket_buf,
                 bucket_lock, bcache_lock, ticks, req_dev, req_blockno, i, b,
                 reg, pins, calls, panicked>>

\* line 72, right operand: b->blockno == blockno
FastCmpBlockno(t) ==
  /\ pc[t] = "f_blockno"
  /\ pc' = [pc EXCEPT ![t] = IF blockno[b[t]] = req_blockno[t] THEN "f_load" ELSE "f_rel"]
  /\ UNCHANGED <<kvars, dev, blockno, valid, refcnt, time, sleeplock, bucket_buf,
                 bucket_lock, bcache_lock, ticks, req_dev, req_blockno, i, b,
                 reg, pins, calls, panicked>>

\* line 73, b->refcnt++: the load
FastLoad(t) ==
  /\ pc[t] = "f_load"
  /\ reg' = [reg EXCEPT ![t] = refcnt[b[t]]]
  /\ pc' = [pc EXCEPT ![t] = "f_store"]
  /\ UNCHANGED <<kvars, dev, blockno, valid, refcnt, time, sleeplock, bucket_buf,
                 bucket_lock, bcache_lock, ticks, req_dev, req_blockno, i, b,
                 pins, calls, panicked>>

\* line 73, b->refcnt++: the store
FastStore(t) ==
  /\ pc[t] = "f_store"
  /\ refcnt' = [refcnt EXCEPT ![b[t]] = Incr(reg[t])]
  /\ pc' = [pc EXCEPT ![t] = "f_time"]
  /\ UNCHANGED <<kvars, dev, blockno, valid, time, sleeplock, bucket_buf,
                 bucket_lock, bcache_lock, ticks, req_dev, req_blockno, i, b,
                 reg, pins, calls, panicked>>

\* lines 74-75: b->time = ticks; release(&bcache.bucket[i].lock)
FastHit(t) ==
  /\ pc[t] = "f_time"
  /\ time' = [time EXCEPT ![b[t]] = ticks]
  /\ bucket_lock' = [bucket_lock EXCEPT ![i[t]] = 0]
  /\ pc' = [pc EXCEPT ![t] = "sleep"]
  /\ UNCHANGED <<kvars, dev, blockno, valid, refcnt, sleeplock, bucket_buf,
                 bcache_lock, ticks, req_dev, req_blockno, i, b, reg, pins,
                 calls, panicked>>

\* a variant of FastRelease: the release of line 79 is missing
FastReleaseKeepsLock(t) ==
  /\ pc[t] = "f_rel"
  /\ i' = [i EXCEPT ![t] = i[t] + 1]
  /\ pc' = [pc EXCEPT ![t] = IF i[t] + 1 < NBUCKET THEN "f_acq" ELSE "g_acq"]
  /\ UNCHANGED <<kvars, dev, blockno, valid, refcnt, time, sleeplock, bucket_buf,
                 bucket_lock, bcache_lock, ticks, req_dev, req_blockno, b, reg,
                 pins, calls, panicked>>

\* line 79 and the loop header of line 69: release, ++i, next shard or line 83
FastRelease(t) ==
  /\ pc[t] = "f_rel"
  /\ bucket_lock' = [bucket_lock EXCEPT ![i[t]] = 0]
  /\ i' = [i EXCEPT ![t] = i[t] + 1]
  /\ pc' = [pc EXCEPT ![t] = IF i[t] + 1 < NBUCKET THEN "f_acq" ELSE "g_acq"]
  /\ UNCHANGED <<kvars, dev, blockno, valid, refcnt, time, sleeplock, bucket_buf,
                 bcache_lock, ticks, req_dev, req_blockno, b, reg, pins,
                 calls, panicked>>

\* line 83: acquire(&bcache.lock)
ScanAcquire(t) ==
  /\ pc[t] = "g_acq" /\ bcache_lock = 0
  /\ bcache_lock' = t
  /\ pc' = [pc EXCEPT ![t] = "g_scan"]
  /\ UNCHANGED <<kvars, dev, blockno, valid, refcnt, time, sleeplock, bucket_buf,
                 bucket_lock, ticks, req_dev, req_blockno, i, b, reg, pins,
                 calls, panicked>>

\* lines 84-86 and 96: the scan for the key.  dev and blockno are written
\* under bcache.lock only (lines 104-105), so the whole scan is one step.
\* On a hit i and b are the entry; on a miss the loop of line 101 starts.
ScanLookup(t) ==
  /\ pc[t] = "g_scan"
  /\ LET h == FullScanHit(req_dev[t], req_blockno[t]) IN
       IF h < NBUF
       THEN /\ i' = [i EXCEPT ![t] = h]
            /\ b' = [b EXCEPT ![t] = h]
            /\ pc' = [pc EXCEPT ![t] = "g_load"]
       ELSE /\ i' = [i EXCEPT ![t] = 0]
            /\ b' = b
            /\ pc' = [pc EXCEPT ![t] = "m_scan"]
  /\ UNCHANGED <<kvars, dev, blockno, valid, refcnt, time, sleeplock, bucket_buf,
                 bucket_lock, bcache_lock, ticks, req_dev, req_blockno, reg,
                 pins, calls, panicked>>

\* line 87, b->refcnt++: the load
ScanLoad(t) ==
  /\ pc[t] = "g_load"
  /\ reg' = [reg EXCEPT ![t] = refcnt[b[t]]]
  /\ pc' = [pc EXCEPT ![t] = "g_store"]
  /\ UNCHANGED <<kvars, dev, blockno, valid, refcnt, time, sleeplock, bucket_buf,
                 bucket_lock, bcache_lock, ticks, req_dev, req_blockno, i, b,
                 pins, calls, panicked>>

\* line 87, b->refcnt++: the store
ScanStore(t) ==
  /\ pc[t] = "g_store"
  /\ refcnt' = [refcnt EXCEPT ![b[t]] = Incr(reg[t])]
  /\ pc' = [pc EXCEPT ![t] = "g_time"]
  /\ UNCHANGED <<kvars, dev, blockno, valid, time, sleeplock, bucket_buf,
                 bucket_lock, bcache_lock, ticks, req_dev, req_blockno, i, b,
                 reg, pins, calls, panicked>>

\* line 88: b->time = ticks
ScanTime(t) ==
  /\ pc[t] = "g_time"
  /\ time' = [time EXCEPT ![b[t]] = ticks]
  /\ pc' = [pc EXCEPT ![t] = "g_sacq"]
  /\ UNCHANGED <<kvars, dev, blockno, valid, refcnt, sleeplock, bucket_buf,
                 bucket_lock, bcache_lock, ticks, req_dev, req_blockno, i, b,
                 reg, pins, calls, panicked>>

\* line 89: acquire(&bcache.bucket[i%NBUCKET].lock), bcache.lock still held
ScanShardAcquire(t) ==
  /\ pc[t] = "g_sacq" /\ bucket_lock[ShardOf(i[t])] = 0
  /\ bucket_lock' = [bucket_lock EXCEPT ![ShardOf(i[t])] = t]
  /\ pc' = [pc EXCEPT ![t] = "g_install"]
  /\ UNCHANGED <<kvars, dev, blockno, valid, refcnt, time, sleeplock, bucket_buf,
                 bcache_lock, ticks, req_dev, req_blockno, i, b, reg, pins,
                 calls, panicked>>

\* lines 90-91: bcache.bucket[i%NBUCKET].buf = b; release the shard lock
ScanInstall(t) ==
  /\ pc[t] = "g_install"
  /\ bucket_buf' = [bucket_buf EXCEPT ![ShardOf(i[t])] = b[t]]
  /\ bucket_lock' = [bucket_lock EXCEPT ![ShardOf(i[t])] = 0]
  /\ pc' = [pc EXCEPT ![t] = "g_rel"]
  /\ UNCHANGED <<kvars, dev, blockno, valid, refcnt, time, sleeplock, bcache_lock,
                 ticks, req_dev, req_blockno, i, b, reg, pins, calls,
                 panicked>>

\* line 92: release(&bcache.lock)
ScanRelease(t) ==
  /\ pc[t] = "g_rel"
  /\ bcache_lock' = 0
  /\ pc' = [pc EXCEPT ![t] = "sleep"]
  /\ UNCHANGED <<kvars, dev, blockno, valid, refcnt, time, sleeplock, bucket_buf,
                 bucket_lock, ticks, req_dev, req_blockno, i, b, reg, pins,
                 calls, panicked>>

\* lines 101-103, 113-114: one iteration of the recycle loop, reading
\* b->refcnt; past the last entry, panic("bget: no buffers"), which does not
\* return: the task stays at line 114 with bcache.lock, the others go on
MissScan(t) ==
  /\ pc[t] = "m_scan"
  /\ IF i[t] >= NBUF
     THEN /\ panicked' = "bget: no buffers"
          /\ pc' = [pc EXCEPT ![t] = "m_panic"]
          /\ UNCHANGED <<kvars, i, b>>
     ELSE /\ panicked' = panicked
          /\ b' = [b EXCEPT ![t] = i[t]]
          /\ IF refcnt[i[t]] = 0
             THEN /\ pc' = [pc EXCEPT ![t] = "m_dev"]
                  /\ i' = i
             ELSE /\ pc' = pc
                  /\ i' = [i EXCEPT ![t] = i[t] + 1]
  /\ UNCHANGED <<kvars, dev, blockno, valid, refcnt, time, sleeplock, bucket_buf,
                 bucket_lock, bcache_lock, ticks, req_dev, req_blockno, reg,
                 pins, calls>>

\* line 104: b->dev = dev
MissDev(t) ==
  /\ pc[t] = "m_dev"
  /\ dev' = [dev EXCEPT ![b[t]] = req_dev[t]]
  /\ pc' = [pc EXCEPT ![t] = "m_blockno"]
  /\ UNCHANGED <<kvars, blockno, valid, refcnt, time, sleeplock, bucket_buf,
                 bucket_lock, bcache_lock, ticks, req_dev, req_blockno, i, b,
                 reg, pins, calls, panicked>>

\* line 105: b->blockno = blockno
MissBlockno(t) ==
  /\ pc[t] = "m_blockno"
  /\ blockno' = [blockno EXCEPT ![b[t]] = req_blockno[t]]
  /\ pc' = [pc EXCEPT ![t] = "m_valid"]
  /\ UNCHANGED <<kvars, dev, valid, refcnt, time, sleeplock, bucket_buf,
                 bucket_lock, bcache_lock, ticks, req_dev, req_blockno, i, b,
                 reg, pins, calls, panicked>>

\* line 106: b->valid = 0
MissValid(t) ==
  /\ pc[t] = "m_valid"
  /\ valid' = [valid EXCEPT ![b[t]] = FALSE]
  /\ pc' = [pc EXCEPT ![t] = "m_refcnt"]
  /\ UNCHANGED <<kvars, dev, blockno, refcnt, time, sleeplock, bucket_buf,
                 bucket_lock, bcache_lock, ticks, req_dev, req_blockno, i, b,
                 reg, pins, calls, panicked>>

\* line 107: b->refcnt = 1
MissRefcnt(t) ==
  /\ pc[t] = "m_refcnt"
  /\ refcnt' = [refcnt EXCEPT ![b[t]] = 1]
  /\ pc' = [pc EXCEPT ![t] = "m_time"]
  /\ UNCHANGED <<kvars, dev, blockno, valid, time, sleeplock, bucket_buf,
                 bucket_lock, bcache_lock, ticks, req_dev, req_blockno, i, b,
                 reg, pins, calls, panicked>>

\* lines 108-109: b->time = ticks; release(&bcache.lock)
MissRelease(t) ==
  /\ pc[t] = "m_time"
  /\ time' = [time EXCEPT ![b[t]] = ticks]
  /\ bcache_lock' = 0
  /\ pc' = [pc EXCEPT ![t] = "sleep"]
  /\ UNCHANGED <<kvars, dev, blockno, valid, refcnt, sleeplock, bucket_buf,
                 bucket_lock, ticks, req_dev, req_blockno, i, b, reg, pins,
                 calls, panicked>>

\* lines 76-77, 93-94, 110-111: acquiresleep(&b->lock); return b (the
\* locals of bget other than b go out of scope)
AcquireSleep(t) ==
  /\ pc[t] = "sleep" /\ sleeplock[b[t]] = 0
  /\ sleeplock' = [sleeplock EXCEPT ![b[t]] = t]
  /\ pc' = [pc EXCEPT ![t] = "rd_valid"]
  /\ i' = [i EXCEPT ![t] = 0]
  /\ reg' = [reg EXCEPT ![t] = 0]
  /\ UNCHANGED <<kvars, dev, blockno, valid, refcnt, time, bucket_buf, bucket_lock,
                 bcache_lock, ticks, req_dev, req_blockno, b, pins, calls,
                 panicked>>

\* ---------------------------------------------------------------- bread
\* line 124: if(!b->valid)
BreadValid(t) ==
  /\ pc[t] = "rd_valid"
  /\ pc' = [pc EXCEPT ![t] = IF valid[b[t]] THEN "held" ELSE "rd_disk"]
  /\ UNCHANGED <<kvars, dev, blockno, valid, refcnt, time, sleeplock, bucket_buf,
                 bucket_lock, bcache_lock, ticks, req_dev, req_blockno, i, b,
                 reg, pins, calls, panicked>>

\* lines 125-128: virtio_disk_rw(b, 0); b->valid = 1; return b
BreadDisk(t) ==
  /\ pc[t] = "rd_disk"
  /\ valid' = [valid EXCEPT ![b[t]] = TRUE]
  /\ pc' = [pc EXCEPT ![t] = "held"]
  /\ UNCHANGED <<kvars, dev, blockno, refcnt, time, sleeplock, bucket_buf,
                 bucket_lock, bcache_lock, ticks, req_dev, req_blockno, i, b,
                 reg, pins, calls, panicked>>

\* ---------------------------------------------------------------- bwrite
\* lines 135-137, called by the task that got b from bread
Bwrite(t) ==
  /\ pc[t] = "held"
  /\ panicked' = IF sleeplock[b[t]] = t THEN panicked ELSE "bwrite"
  /\ pc' = IF sleeplock[b[t]] = t THEN pc ELSE [pc EXCEPT ![t] = "wr_panic"]
  /\ UNCHANGED <<kvars, dev, blockno, valid, refcnt, time, sleeplock, bucket_buf,
                 bucket_lock, bcache_lock, ticks, req_dev, req_blockno,
                 i, b, reg, pins, calls>>

\* ---------------------------------------------------------------- brelse
\* lines 145-148: the holdingsleep check and releasesleep(&b->lock)
BrelseCall(t) ==
  /\ pc[t] = "held"
  /\ IF sleeplock[b[t]] = t
     THEN /\ sleeplock' = [sleeplock EXCEPT ![b[t]] = 0]
          /\ pc' = [pc EXCEPT ![t] = "rl_acq"]
          /\ panicked' = panicked
     ELSE /\ panicked' = "brelse"
          /\ pc' = [pc EXCEPT ![t] = "rl_panic"]
          /\ UNCHANGED <<kvars, sleeplock>>
  /\ UNCHANGED <<kvars, dev, blockno, valid, refcnt, time, bucket_buf, bucket_lock,
                 bcache_lock, ticks, req_dev, req_blockno, i, b, reg, pins,
                 calls>>

\* line 150: acquire(&bcache.lock)
BrelseAcquire(t) ==
  /\ pc[t] = "rl_acq" /\ bcache_lock = 0
  /\ bcache_lock' = t
  /\ pc' = [pc EXCEPT ![t] = "rl_load"]
  /\ UNCHANGED <<kvars, dev, blockno, valid, refcnt, time, sleeplock, bucket_buf,
                 bucket_lock, ticks, req_dev, req_blockno, i, b, reg, pins,
                 calls, panicked>>

\* line 151, b->refcnt--: the load
BrelseLoad(t) ==
  /\ pc[t] = "rl_load"
  /\ reg' = [reg EXCEPT ![t] = refcnt[b[t]]]
  /\ pc' = [pc EXCEPT ![t] = "rl_store"]
  /\ UNCHANGED <<kvars, dev, blockno, valid, refcnt, time, sleeplock, bucket_buf,
                 bucket_lock, bcache_lock, ticks, req_dev, req_blockno, i, b,
                 pins, calls, panicked>>

\* line 151, b->refcnt--: the store; the register keeps the new value
BrelseStore(t) ==
  /\ pc[t] = "rl_store"
  /\ refcnt' = [refcnt EXCEPT ![b[t]] = Decr(reg[t])]
  /\ reg' = [reg EXCEPT ![t] = Decr(reg[t])]
  /\ pc' = [pc EXCEPT ![t] = "rl_time"]
  /\ UNCHANGED <<kvars, dev, blockno, valid, time, sleeplock, bucket_buf,
                 bucket_lock, bcache_lock, ticks, req_dev, req_blockno, i, b,
                 pins, calls, panicked>>

\* lines 152-157: if (b->refcnt == 0) b->time = 0; release(&bcache.lock).
\* a variant of BrelseFinish: the release of line 157 is missing
BrelseFinishKeepsLock(t) ==
  /\ pc[t] = "rl_time"
  /\ \E seen \in {refcnt[b[t]], reg[t]} :
       time' = IF seen = 0 THEN [time EXCEPT ![b[t]] = 0] ELSE time
  /\ pc' = [pc EXCEPT ![t] = "idle"]
  /\ b' = [b EXCEPT ![t] = 0]
  /\ reg' = [reg EXCEPT ![t] = 0]
  /\ req_dev' = [req_dev EXCEPT ![t] = 0]
  /\ req_blockno' = [req_blockno EXCEPT ![t] = 0]
  /\ UNCHANGED <<kvars, dev, blockno, valid, refcnt, sleeplock, bucket_buf,
                 bucket_lock, bcache_lock, ticks, i, pins, calls, panicked>>

\* b->refcnt is not volatile: the test reads memory again or uses the value
\* just stored, as the compiler chooses.  The call returns: the task's
\* locals go out of scope.
BrelseFinish(t) ==
  /\ pc[t] = "rl_time"
  /\ \E seen \in {refcnt[b[t]], reg[t]} :
       time' = IF seen = 0 THEN [time EXCEPT ![b[t]] = 0] ELSE time
  /\ bcache_lock' = 0
  /\ pc' = [pc EXCEPT ![t] = "idle"]
  /\ b' = [b EXCEPT ![t] = 0]
  /\ reg' = [reg EXCEPT ![t] = 0]
  /\ req_dev' = [req_dev EXCEPT ![t] = 0]
  /\ req_blockno' = [req_blockno EXCEPT ![t] = 0]
  /\ UNCHANGED <<kvars, dev, blockno, valid, refcnt, sleeplock, bucket_buf,
                 bucket_lock, ticks, i, pins, calls, panicked>>

\* ---------------------------------------------------------------- bpin
\* line 162, called (as log_write does) by the task that holds b
BpinCall(t) ==
  /\ pc[t] = "held" /\ pins[b[t]] < MaxPins /\ bcache_lock = 0
  /\ calls < MaxCalls
  /\ calls' = calls + 1
  /\ bcache_lock' = t
  /\ pc' = [pc EXCEPT ![t] = "pin_load"]
  /\ UNCHANGED <<kvars, dev, blockno, valid, refcnt, time, sleeplock, bucket_buf,
                 bucket_lock, ticks, req_dev, req_blockno, i, b, reg, pins,
                 panicked>>

\* line 163, b->refcnt++: the load
BpinLoad(t) ==
  /\ pc[t] = "pin_load"
  /\ reg' = [reg EXCEPT ![t] = refcnt[b[t]]]
  /\ pc' = [pc EXCEPT ![t] = "pin_store"]
  /\ UNCHANGED <<kvars, dev, blockno, valid, refcnt, time, sleeplock, bucket_buf,
                 bucket_lock, bcache_lock, ticks, req_dev, req_blockno, i, b,
                 pins, calls, panicked>>

\* lines 163-164: the store of b->refcnt++; release(&bcache.lock)
BpinStore(t) ==
  /\ pc[t] = "pin_store"
  /\ refcnt' = [refcnt EXCEPT ![b[t]] = Incr(reg[t])]
  /\ pins' = [pins EXCEPT ![b[t]] = pins[b[t]] + 1]
  /\ bcache_lock' = 0
  /\ reg' = [reg EXCEPT ![t] = 0]
  /\ pc' = [pc EXCEPT ![t] = "held"]
  /\ UNCHANGED <<kvars, dev, blockno, valid, time, sleeplock, bucket_buf,
                 bucket_lock, ticks, req_dev, req_blockno, i, b, calls,
                 panicked>>

\* ---------------------------------------------------------------- bunpin
\* line 169, called (as install_trans does) by a task that holds b, on a
\* buffer with a pin outstanding
BunpinCall(t) ==
  /\ pc[t] = "held" /\ pins[b[t]] > 0 /\ bcache_lock = 0
  /\ bcache_lock' = t
  /\ pins' = [pins EXCEPT ![b[t]] = pins[b[t]] - 1]
  /\ pc' = [pc EXCEPT ![t] = "unpin_load"]
  /\ UNCHANGED <<kvars, dev, blockno, valid, refcnt, time, sleeplock, bucket_buf,
                 bucket_lock, ticks, req_dev, req_blockno, i, b, reg, calls,
                 panicked>>

\* line 170, b->refcnt--: the load
BunpinLoad(t) ==
  /\ pc[t] = "unpin_load"
  /\ reg' = [reg EXCEPT ![t] = refcnt[b[t]]]
  /\ pc' = [pc EXCEPT ![t] = "unpin_store"]
  /\ UNCHANGED <<kvars, dev, blockno, valid, refcnt, time, sleeplock, bucket_buf,
                 bucket_lock, bcache_lock, ticks, req_dev, req_blockno, i, b,
                 pins, calls, panicked>>

\* lines 170-171: the store of b->refcnt--; release(&bcache.lock)
BunpinStore(t) ==
  /\ pc[t] = "unpin_store"
  /\ refcnt' = [refcnt EXCEPT ![b[t]] = Decr(reg[t])]
  /\ bcache_lock' = 0
  /\ reg' = [reg EXCEPT ![t] = 0]
  /\ pc' = [pc EXCEPT ![t] = "held"]
  /\ UNCHANGED <<kvars, dev, blockno, valid, time, sleeplock, bucket_buf,
                 bucket_lock, ticks, req_dev, req_blockno, i, b, pins,
                 calls, panicked>>

\* ---------------------------------------------------------------- clock
\* clockintr: ticks++, at any moment.  bget reads ticks at lines 74, 88 and
\* 108.
Tick ==
  /\ ticks < MaxTicks
  /\ ticks' = ticks + 1
  /\ UNCHANGED <<kvars, dev, blockno, valid, refcnt, time, sleeplock, bucket_buf,
                 bucket_lock, bcache_lock, pc, req_dev, req_blockno, i, b,
                 reg, pins, calls, panicked>>

NextBio ==
  \/ \E t \in Tasks, d \in Devs, n \in Blocknos : BreadCall(t, d, n)
  \/ \E t \in Tasks : FastAcquire(t)
  \/ \E t \in Tasks : FastCmpDev(t)
  \/ \E t \in Tasks : FastCmpBlockno(t)
  \/ \E t \in Tasks : FastLoad(t)
  \/ \E t \in Tasks : FastStore(t)
  \/ \E t \in Tasks : FastHit(t)
  \/ \E t \in Tasks : FastRelease(t)
  \/ \E t \in Tasks : ScanAcquire(t)
  \/ \E t \in Tasks : ScanLookup(t)
  \/ \E t \in Tasks : ScanLoad(t)
  \/ \E t \in Tasks : ScanStore(t)
  \/ \E t \in Tasks : ScanTime(t)
  \/ \E t \in Tasks : ScanShardAcquire(t)
  \/ \E t \in Tasks : ScanInstall(t)
  \/ \E t \in Tasks : ScanRelease(t)
  \/ \E t \in Tasks : MissScan(t)
  \/ \E t \in Tasks : MissDev(t)
  \/ \E t \in Tasks : MissBlockno(t)
  \/ \E t \in Tasks : MissValid(t)
  \/ \E t \in Tasks : MissRefcnt(t)
  \/ \E t \in Tasks : MissRelease(t)
  \/ \E t \in Tasks : AcquireSleep(t)
  \/ \E t \in Tasks : BreadValid(t)
  \/ \E t \in Tasks : BreadDisk(t)
  \/ \E t \in Tasks : Bwrite(t)
  \/ \E t \in Tasks : BrelseCall(t)
  \/ \E t \in Tasks : BrelseAcquire(t)
  \/ \E t \in Tasks : BrelseLoad(t)
  \/ \E t \in Tasks : BrelseStore(t)
  \/ \E t \in Tasks : BrelseFinish(t)
  \/ \E t \in Tasks : BpinCall(t)
  \/ \E t \in Tasks : BpinLoad(t)
  \/ \E t \in Tasks : BpinStore(t)
  \/ \E t \in Tasks : BunpinCall(t)
  \/ \E t \in Tasks : BunpinLoad(t)
  \/ \E t \in Tasks : BunpinStore(t)
  \/ Tick


\* ================================================================ kalloc.c
\* riscv.h: #define PGROUNDUP(sz) (((sz)+PGSIZE-1) & ~(PGSIZE-1))
PGROUNDUP(sz) == ((sz + PGSIZE - 1) \div PGSIZE) * PGSIZE

\* a variant of KfreeIndex: pages dealt to the cores in turn
KfreeIndexByPage(pa) == ((pa - End) \div PGSIZE) % NCPU

\* lines 60-61: i = ((uint64)((char*)pa - end)) / NMEM
KfreeIndex(pa) == (pa - End) \div NMEM

\* a variant of KfreeBad: the test against PHYSTOP is missing
KfreeBadNoUpper(pa) == pa % PGSIZE # 0 \/ pa < End

\* line 54: the test that leads to panic("kfree")
KfreeBad(pa) == pa % PGSIZE # 0 \/ pa < End \/ pa >= PHYSTOP

\* lines 40-42: the addresses freerange(pa_start, pa_end) passes to kfree
FreerangePages(pa_start, pa_end) ==
  {p \in PGROUNDUP(pa_start)..pa_end :
     (p - PGROUNDUP(pa_start)) % PGSIZE = 0 /\ p + PGSIZE <= pa_end}

\* lines 29-33: every address kinit frees
Pages == UNION {FreerangePages(End + NMEM * k, End + NMEM * k + NMEM) : k \in Cpus}

MaxOf(S) == CHOOSE x \in S : \A y \in S : y <= x

\* kinit frees in ascending address order and kfree pushes on the list
\* KfreeIndex names, so each list ends with its highest address on top and
\* each page linked to the next lower one of the same list.
KinitList(k) == {p \in Pages : KfreeIndex(p) = k}
KinitHead(k) == IF KinitList(k) = {} THEN 0 ELSE MaxOf(KinitList(k))
KinitNext(p) ==
  LET below == {q \in KinitList(KfreeIndex(p)) : q < p}
  IN IF below = {} THEN 0 ELSE MaxOf(below)

\* the core whose partition [end + k*NMEM, end + (k+1)*NMEM) holds p
OwnerOf(p) ==
  CHOOSE k \in Cpus : End + k * NMEM <= p /\ p < End + k * NMEM + NMEM

\* r->next, for the r a list holds
NextOf(r) == IF r \in Pages THEN knext[r] ELSE JUNK_FREE

\* the addresses on a list, top first, following next from r
RECURSIVE Chain(_, _)
Chain(r, fuel) ==
  IF r \notin Pages \/ fuel = 0 THEN <<>>
  ELSE <<r>> \o Chain(knext[r], fuel - 1)
ListOf(k) == Chain(freelist[k], Cardinality(Pages) + 1)
Lists == [k \in Cpus |-> ListOf(k)]

KIdle == \A t \in KTasks : kpc[t] = "idle"
NoLists == [k \in Cpus |-> <<>>]

KmemInit ==
  /\ freelist = [k \in Cpus |-> KinitHead(k)]
  /\ knext = [p \in Pages |-> KinitNext(p)]
  /\ klock = [k \in Cpus |-> 0]
  /\ kpc = [t \in KTasks |-> "idle"]
  /\ ki = [t \in KTasks |-> 0]
  /\ kr = [t \in KTasks |-> 0]
  /\ kj = [t \in KTasks |-> 0]
  /\ kpa = [t \in KTasks |-> 0]
  /\ kcpu = [t \in KTasks |-> 0]
  /\ outstanding = {}
  /\ kempty = [t \in KTasks |-> FALSE]
  /\ rt_phase = "off"
  /\ rt_lists = NoLists
  /\ rt_core = 0
  /\ rt_page = 0
  /\ rt_again = 0

RtOff ==
  /\ rt_phase' = "off"
  /\ rt_lists' = NoLists
  /\ rt_core' = 0
  /\ rt_page' = 0
  /\ rt_again' = 0

\* the positions of a task inside kalloc
KallocPcs == {"ka_acq", "ka_pop", "st_acq", "st_pop", "ka_ret"}

\* the record, for every task inside kalloc after this step, of whether all
\* the free lists have been empty at one instant of its call
KemptyStep ==
  kempty' = [t \in KTasks |->
               IF kpc'[t] \in KallocPcs
               THEN (kpc[t] \in KallocPcs /\ kempty[t]) \/ \A k \in Cpus : freelist'[k] = 0
               ELSE FALSE]

\* ---------------------------------------------------------------- kalloc
\* lines 79-81: push_off(); i = cpuid(); pop_off(), on core c
KallocCall(t, c) ==
  /\ kpc[t] = "idle"
  /\ kcpu' = [kcpu EXCEPT ![t] = c]
  /\ ki' = [ki EXCEPT ![t] = c]
  /\ kpc' = [kpc EXCEPT ![t] = "ka_acq"]
  /\ IF KIdle /\ rt_phase = "freed" /\ c = OwnerOf(rt_page)
     THEN rt_phase' = "again" /\ UNCHANGED <<rt_lists, rt_core, rt_page, rt_again>>
     ELSE IF KIdle
     THEN /\ rt_phase' = "alloc"
          /\ rt_lists' = Lists
          /\ rt_core' = c
          /\ rt_page' = 0
          /\ rt_again' = 0
     ELSE RtOff
  /\ UNCHANGED <<bvars, freelist, knext, klock, kr, kj, kpa, outstanding>>
  /\ KemptyStep

\* line 81: pop_off() turns the interrupts of the core back on.  Until the
\* acquire() of line 83 turns them off, a timer interrupt makes the task
\* yield, and the scheduler of another core resumes it.  (Past line 83 the
\* code does not depend on the core it runs on.)
Migrate(t, c) ==
  /\ kpc[t] = "ka_acq" /\ c # kcpu[t]
  /\ kcpu' = [kcpu EXCEPT ![t] = c]
  /\ UNCHANGED <<bvars, freelist, knext, klock, kpc, ki, kr, kj, kpa, outstanding,
                 rtvars>>
  /\ KemptyStep

\* line 83: acquire(&kmem[i].lock)
KallocAcquire(t) ==
  /\ kpc[t] = "ka_acq" /\ klock[ki[t]] = 0
  /\ klock' = [klock EXCEPT ![ki[t]] = t]
  /\ kpc' = [kpc EXCEPT ![t] = "ka_pop"]
  /\ UNCHANGED <<bvars, freelist, knext, ki, kr, kj, kpa, kcpu, outstanding,
                 rtvars>>
  /\ KemptyStep

\* a variant of KallocPop: r is taken and the list keeps it
KallocPopKeepsHead(t) ==
  /\ kpc[t] = "ka_pop"
  /\ kr' = [kr EXCEPT ![t] = freelist[ki[t]]]
  /\ klock' = [klock EXCEPT ![ki[t]] = 0]
  /\ kj' = [kj EXCEPT ![t] = 0]
  /\ kpc' = [kpc EXCEPT ![t] = IF freelist[ki[t]] # 0 THEN "ka_ret" ELSE "st_acq"]
  /\ kcpu' = [kcpu EXCEPT ![t] = 0]
  /\ UNCHANGED <<bvars, freelist, knext, ki, kpa, outstanding, rtvars>>
  /\ KemptyStep

\* a variant of KallocPop: the scan of line 91 starts at the caller's list
KallocPopScanFromSelf(t) ==
  /\ kpc[t] = "ka_pop"
  /\ kr' = [kr EXCEPT ![t] = freelist[ki[t]]]
  /\ freelist' = IF freelist[ki[t]] # 0
                 THEN [freelist EXCEPT ![ki[t]] = NextOf(freelist[ki[t]])]
                 ELSE freelist
  /\ klock' = [klock EXCEPT ![ki[t]] = 0]
  /\ kj' = [kj EXCEPT ![t] = IF freelist[ki[t]] # 0 THEN 0 ELSE ki[t]]
  /\ kpc' = [kpc EXCEPT ![t] = IF freelist[ki[t]] # 0 THEN "ka_ret" ELSE "st_acq"]
  /\ kcpu' = [kcpu EXCEPT ![t] = 0]
  /\ UNCHANGED <<bvars, knext, ki, kpa, outstanding, rtvars>>
  /\ KemptyStep

\* lines 84-90: r = kmem[i].freelist; if(r) kmem[i].freelist = r->next;
\* release; with r == 0 the scan of line 91 starts at j = 0.  The core the
\* task runs on is not followed any further.
KallocPop(t) ==
  /\ kpc[t] = "ka_pop"
  /\ kr' = [kr EXCEPT ![t] = freelist[ki[t]]]
  /\ freelist' = IF freelist[ki[t]] # 0
                 THEN [freelist EXCEPT ![ki[t]] = NextOf(freelist[ki[t]])]
                 ELSE freelist
  /\ klock' = [klock EXCEPT ![ki[t]] = 0]
  /\ kj' = [kj EXCEPT ![t] = 0]
  /\ kpc' = [kpc EXCEPT ![t] = IF freelist[ki[t]] # 0 THEN "ka_ret" ELSE "st_acq"]
  /\ kcpu' = [kcpu EXCEPT ![t] = 0]
  /\ UNCHANGED <<bvars, knext, ki, kpa, outstanding, rtvars>>
  /\ KemptyStep

\* lines 91-92: the loop test j < NCPU and acquire(&kmem[j].lock); past the
\* last list the loop ends with r == 0
StealAcquire(t) ==
  /\ kpc[t] = "st_acq"
  /\ IF kj[t] < NCPU
     THEN /\ klock[kj[t]] = 0
          /\ klock' = [klock EXCEPT ![kj[t]] = t]
          /\ kpc' = [kpc EXCEPT ![t] = "st_pop"]
     ELSE /\ klock' = klock
          /\ kpc' = [kpc EXCEPT ![t] = "ka_ret"]
  /\ UNCHANGED <<bvars, freelist, knext, ki, kr, kj, kpa, kcpu, outstanding,
                 rtvars>>
  /\ KemptyStep

\* a variant of StealPop: the release of line 99 is missing
StealPopKeepsLock(t) ==
  /\ kpc[t] = "st_pop"
  /\ kr' = [kr EXCEPT ![t] = freelist[kj[t]]]
  /\ IF freelist[kj[t]] # 0
     THEN /\ freelist' = [freelist EXCEPT ![kj[t]] = NextOf(freelist[kj[t]])]
          /\ klock' = [klock EXCEPT ![kj[t]] = 0]
          /\ kj' = kj
          /\ kpc' = [kpc EXCEPT ![t] = "ka_ret"]
     ELSE /\ freelist' = freelist
          /\ klock' = klock
          /\ kj' = [kj EXCEPT ![t] = kj[t] + 1]
          /\ kpc' = [kpc EXCEPT ![t] = "st_acq"]
  /\ UNCHANGED <<bvars, knext, ki, kpa, kcpu, outstanding, rtvars>>
  /\ KemptyStep

\* lines 93-99: r = kmem[j].freelist; if(r) unlink it, release and break;
\* else release and ++j
StealPop(t) ==
  /\ kpc[t] = "st_pop"
  /\ kr' = [kr EXCEPT ![t] = freelist[kj[t]]]
  /\ klock' = [klock EXCEPT ![kj[t]] = 0]
  /\ IF freelist[kj[t]] # 0
     THEN /\ freelist' = [freelist EXCEPT ![kj[t]] = NextOf(freelist[kj[t]])]
          /\ kj' = kj
          /\ kpc' = [kpc EXCEPT ![t] = "ka_ret"]
     ELSE /\ freelist' = freelist
          /\ kj' = [kj EXCEPT ![t] = kj[t] + 1]
          /\ kpc' = [kpc EXCEPT ![t] = "st_acq"]
  /\ UNCHANGED <<bvars, knext, ki, kpa, kcpu, outstanding, rtvars>>
  /\ KemptyStep

\* lines 103-105: if(r) memset((char*)r, 5, PGSIZE); return (void*)r
KallocReturn(t) ==
  /\ kpc[t] = "ka_ret"
  /\ knext' = IF kr[t] \in Pages THEN [knext EXCEPT ![kr[t]] = JUNK_ALLOC] ELSE knext
  /\ outstanding' = IF kr[t] # 0 THEN outstanding \cup {kr[t]} ELSE outstanding
  /\ kpc' = [kpc EXCEPT ![t] = "idle"]
  /\ ki' = [ki EXCEPT ![t] = 0]
  /\ kr' = [kr EXCEPT ![t] = 0]
  /\ kj' = [kj EXCEPT ![t] = 0]
  /\ kcpu' = [kcpu EXCEPT ![t] = 0]
  /\ IF rt_phase = "alloc" /\ kr[t] # 0
     THEN rt_phase' = "got" /\ rt_page' = kr[t] /\ UNCHANGED <<rt_lists, rt_core, rt_again>>
     ELSE IF rt_phase = "again"
     THEN rt_phase' = "regot" /\ rt_again' = kr[t] /\ UNCHANGED <<rt_lists, rt_core, rt_page>>
     ELSE RtOff
  /\ UNCHANGED <<bvars, freelist, klock, kpa>>
  /\ KemptyStep

\* ---------------------------------------------------------------- kfree
\* what callers pass to kfree: a page kalloc handed out, or an address the
\* test of line 54 rejects
BadAddrs == {End - EndOff, MaxOf(Pages) + 1, PHYSTOP}

\* lines 54-63, on core c: the test, memset(pa, 1, PGSIZE), and i; panic()
\* does not return, the task stays at line 55
KfreeCall(t, c, pa) ==
  /\ kpc[t] = "idle"
  /\ IF KfreeBad(pa)
     THEN /\ panicked' = "kfree"
          /\ kpa' = [kpa EXCEPT ![t] = pa]
          /\ kcpu' = [kcpu EXCEPT ![t] = c]
          /\ kpc' = [kpc EXCEPT ![t] = "kf_panic"]
          /\ UNCHANGED <<knext, ki, outstanding>>
     ELSE /\ panicked' = panicked
          /\ knext' = [knext EXCEPT ![pa] = JUNK_FREE]
          /\ ki' = [ki EXCEPT ![t] = KfreeIndex(pa)]
          /\ kpa' = [kpa EXCEPT ![t] = pa]
          /\ kcpu' = [kcpu EXCEPT ![t] = c]
          /\ outstanding' = outstanding \ {pa}
          /\ kpc' = [kpc EXCEPT ![t] = "kf_acq"]
  /\ IF rt_phase = "got" /\ pa = rt_page
     THEN rt_phase' = "free" /\ UNCHANGED <<rt_lists, rt_core, rt_page, rt_again>>
     ELSE RtOff
  /\ UNCHANGED <<dev, blockno, valid, refcnt, time, sleeplock, bucket_buf,
                 bucket_lock, bcache_lock, ticks, pc, req_dev, req_blockno,
                 i, b, reg, pins, calls, freelist, klock, kr, kj>>
  /\ KemptyStep

\* line 65: acquire(&kmem[i].lock)
KfreeAcquire(t) ==
  /\ kpc[t] = "kf_acq" /\ klock[ki[t]] = 0
  /\ klock' = [klock EXCEPT ![ki[t]] = t]
  /\ kpc' = [kpc EXCEPT ![t] = "kf_push"]
  /\ UNCHANGED <<bvars, freelist, knext, ki, kr, kj, kpa, kcpu, outstanding,
                 rtvars>>
  /\ KemptyStep

\* a variant of KfreePush: the page goes on the list of the calling core
KfreePushOnCallerList(t) ==
  /\ kpc[t] = "kf_push"
  /\ knext' = [knext EXCEPT ![kpa[t]] = freelist[kcpu[t]]]
  /\ freelist' = [freelist EXCEPT ![kcpu[t]] = kpa[t]]
  /\ klock' = [klock EXCEPT ![ki[t]] = 0]
  /\ kpc' = [kpc EXCEPT ![t] = "idle"]
  /\ ki' = [ki EXCEPT ![t] = 0]
  /\ kpa' = [kpa EXCEPT ![t] = 0]
  /\ kcpu' = [kcpu EXCEPT ![t] = 0]
  /\ IF rt_phase = "free"
     THEN rt_phase' = "freed" /\ UNCHANGED <<rt_lists, rt_core, rt_page, rt_again>>
     ELSE RtOff
  /\ UNCHANGED <<bvars, kr, kj, outstanding>>
  /\ KemptyStep

\* lines 66-68: r->next = kmem[i].freelist; kmem[i].freelist = r; release
KfreePush(t) ==
  /\ kpc[t] = "kf_push"
  /\ knext' = [knext EXCEPT ![kpa[t]] = freelist[ki[t]]]
  /\ freelist' = [freelist EXCEPT ![ki[t]] = kpa[t]]
  /\ klock' = [klock EXCEPT ![ki[t]] = 0]
  /\ kpc' = [kpc EXCEPT ![t] = "idle"]
  /\ ki' = [ki EXCEPT ![t] = 0]
  /\ kpa' = [kpa EXCEPT ![t] = 0]
  /\ kcpu' = [kcpu EXCEPT ![t] = 0]
  /\ IF rt_phase = "free"
     THEN rt_phase' = "freed" /\ UNCHANGED <<rt_lists, rt_core, rt_page, rt_again>>
     ELSE RtOff
  /\ UNCHANGED <<bvars, kr, kj, outstanding>>
  /\ KemptyStep

NextKmem ==
  \/ \E t \in KTasks, c \in Cpus : KallocCall(t, c)
  \/ \E t \in KTasks, c \in Cpus : Migrate(t, c)
  \/ \E t \in KTasks : KallocAcquire(t)
  \/ \E t \in KTasks : KallocPop(t)
  \/ \E t \in KTasks : StealAcquire(t)
  \/ \E t \in KTasks : StealPop(t)
  \/ \E t \in KTasks : KallocReturn(t)
  \/ \E t \in KTasks, c \in Cpus, pa \in outstanding \cup BadAddrs : KfreeCall(t, c, pa)
  \/ \E t \in KTasks : KfreeAcquire(t)
  \/ \E t \in KTasks : KfreePush(t)

\* the steps a task takes by itself, once its caller has made the call:
\* every step of bget, bread, brelse, bpin and bunpin after the first
TaskStep(t) ==
  \/ FastAcquire(t) \/ FastCmpDev(t) \/ FastCmpBlockno(t) \/ FastLoad(t)
  \/ FastStore(t) \/ FastHit(t) \/ FastRelease(t)
  \/ ScanAcquire(t) \/ ScanLookup(t) \/ ScanLoad(t) \/ ScanStore(t)
  \/ ScanTime(t) \/ ScanShardAcquire(t) \/ ScanInstall(t) \/ ScanRelease(t)
  \/ MissScan(t) \/ MissDev(t) \/ MissBlockno(t) \/ MissValid(t)
  \/ MissRefcnt(t) \/ MissRelease(t)
  \/ AcquireSleep(t) \/ BreadValid(t) \/ BreadDisk(t)
  \/ BrelseAcquire(t) \/ BrelseLoad(t) \/ BrelseStore(t) \/ BrelseFinish(t)
  \/ BpinLoad(t) \/ BpinStore(t) \/ BunpinLoad(t) \/ BunpinStore(t)

\* the calls a task's caller makes: bread, bwrite, brelse, bpin, bunpin
BioCall(t) ==
  \/ \E d \in Devs, n \in Blocknos : BreadCall(t, d, n)
  \/ Bwrite(t) \/ BrelseCall(t) \/ BpinCall(t) \/ BunpinCall(t)

\* the buffer cache with the clock standing still: bio.c stores ticks in
\* b->time (lines 74, 88, 108) and reads b->time nowhere, so no lock, no
\* position and no reference count depends on the clock
NextBioTasks == \E t \in Tasks : BioCall(t) \/ TaskStep(t)

Init == BioInit /\ KmemInit

\* every core goes on executing the task it runs: a task that can take a
\* step of its own does not wait for ever (a spinning acquire() retries, and
\* wakeup() makes a sleeper runnable)
SpecBioFair ==
  Init /\ [][NextBioTasks]_vars /\ \A t \in Tasks : WF_vars(TaskStep(t))

SpecBio == Init /\ [][NextBio]_vars

SpecKmem == Init /\ [][NextKmem]_vars

\* ================================================================ claims
\* A task is between bread's bget returning an entry to it and its brelse
\* of that entry.
HoldPcs == {"rd_valid", "rd_disk", "held", "pin_load", "pin_store",
            "unpin_load", "unpin_store"}
Holds(t, e) == pc[t] \in HoldPcs /\ b[t] = e
\* bread has returned the entry to the task
Returned(t) == pc[t] \in HoldPcs \ {"rd_valid", "rd_disk"}
\* bget has picked its entry and the task has not yet called brelse
Outstanding(t) == pc[t] \in HoldPcs \cup {"sleep"}
SameRequest(t, u) == req_dev[t] = req_dev[u] /\ req_blockno[t] = req_blockno[u]
\* no task is inside bget, bread, brelse, bpin or bunpin
Quiescent == \A t \in Tasks : pc[t] \in {"idle", "held"}

\* At most one task at a time is between bget's return of an entry and its
\* brelse of it (the sleep lock).
SleepLockExclusion ==
  \A e \in Bufs : \A t, u \in Tasks : Holds(t, e) /\ Holds(u, e) => t = u

\* C1: at most one task at a time is between the return of bget for an
\* entry and its brelse, and a second task that requests the same
\* (dev, blockno) does not return from bget before the first has called
\* brelse.
C1_OneHolderPerBlock ==
  /\ SleepLockExclusion
  /\ \A t, u \in Tasks :
       pc[t] \in HoldPcs /\ pc[u] \in HoldPcs /\ SameRequest(t, u) => t = u

\* C2: from bget's return until the task's brelse, the entry's dev and
\* blockno are the requested ones.
C2_ReturnedKeyIsRequested ==
  \A t \in Tasks :
    pc[t] \in HoldPcs => dev[b[t]] = req_dev[t] /\ blockno[b[t]] = req_blockno[t]

\* C3: no step changes the (dev, blockno) of an entry whose refcnt is not 0.
C3_KeyStableWhileReferenced ==
  [][\A e \in Bufs :
       refcnt[e] # 0 => dev'[e] = dev[e] /\ blockno'[e] = blockno[e]]_bvars

\* C4: two tasks with an outstanding acquisition for the same (dev, blockno)
\* have the same entry.
C4_SameKeySameEntry ==
  \A t, u \in Tasks :
    Outstanding(t) /\ Outstanding(u) /\ SameRequest(t, u) => b[t] = b[u]

\* C5: no two distinct entries have refcnt > 0 and the same (dev, blockno).
C5_NoDuplicateCaching ==
  \A e, f \in Bufs :
    refcnt[e] # 0 /\ refcnt[f] # 0 /\ dev[e] = dev[f] /\ blockno[e] = blockno[f]
      => e = f

\* C6: an entry bread has returned is valid until the task's brelse.
C6_HeldIsValid ==
  \A t \in Tasks : Returned(t) => valid[b[t]]

\* C7: at a quiescent point refcnt is the number of holders plus the number
\* of outstanding pins.
C7_RefcntCountsHolders ==
  Quiescent =>
    \A e \in Bufs :
      refcnt[e] = Cardinality({t \in Tasks : Holds(t, e)}) + pins[e]

\* ---------------------------------------------------------------- kalloc.c
\* how often page p occurs on the free lists
RECURSIVE Occurs(_, _)
Occurs(seq, p) ==
  IF seq = <<>> THEN 0
  ELSE (IF Head(seq) = p THEN 1 ELSE 0) + Occurs(Tail(seq), p)
RECURSIVE SumOccurs(_, _)
SumOccurs(k, p) ==
  IF k = NCPU THEN 0 ELSE Occurs(ListOf(k), p) + SumOccurs(k + 1, p)
OnLists(p) == SumOccurs(0, p)
\* every list is its pages and ends with the null pointer
WellFormed(k) ==
  /\ freelist[k] \in Pages \cup {0}
  /\ \A n \in 1..Len(ListOf(k)) : NextOf(ListOf(k)[n]) \in Pages \cup {0}
  /\ Len(ListOf(k)) <= Cardinality(Pages)

\* C8: at a quiescent point every page of the partitioned range is in
\* exactly one place, once on one free list or outstanding, and the
\* free lists are well formed; the page a kalloc is about to return is
\* on no list, not outstanding, and about to be returned by no other kalloc.
C8_Conservation ==
  /\ KIdle =>
       /\ \A k \in Cpus : WellFormed(k)
       /\ \A p \in Pages : OnLists(p) + (IF p \in outstanding THEN 1 ELSE 0) = 1
  /\ \A t \in KTasks :
       kpc[t] = "ka_ret" /\ kr[t] # 0 =>
         /\ kr[t] \in Pages
         /\ OnLists(kr[t]) = 0
         /\ kr[t] \notin outstanding
         /\ \A u \in KTasks : u # t /\ kpc[u] = "ka_ret" => kr[u] # kr[t]

\* some pages are outstanding, a page freed out of order is on a list, and
\* a kalloc that stole is about to return
C8_Witness ==
  /\ \E t \in KTasks : kpc[t] = "ka_ret" /\ kr[t] # 0 /\ OwnerOf(kr[t]) # ki[t]
  /\ outstanding # {}
  /\ \E k \in Cpus : freelist[k] # 0 /\ knext[freelist[k]] # KinitNext(freelist[k])

\* C9: every address on core k's free list lies in core k's partition, and
\* a kfree in progress pushes on the list of the partition its address is
\* in, an index in 0..NCPU-1, whichever core runs it.
C9_AddressAffinity ==
  /\ \A k \in Cpus : \A n \in 1..Len(ListOf(k)) :
       End + k * NMEM <= ListOf(k)[n] /\ ListOf(k)[n] < End + k * NMEM + NMEM
  /\ \A t \in KTasks :
       kpc[t] \in {"kf_acq", "kf_push"} =>
         /\ ki[t] \in Cpus
         /\ End + ki[t] * NMEM <= kpa[t] /\ kpa[t] < End + ki[t] * NMEM + NMEM
  /\ \A p \in outstanding : KfreeIndex(p) \in Cpus

\* a core is about to push a page of another core's partition
C9_Witness ==
  \E t \in KTasks : kpc[t] = "kf_push" /\ kcpu[t] # ki[t]

\* C10: with no other call running, kalloc then kfree of the page it
\* returned leaves every free list as it was, and a kalloc that follows on
\* the core that owns the page's partition returns the page again.
C10_RoundTrip ==
  /\ rt_phase = "freed" => Lists = rt_lists
  /\ rt_phase = "regot" => rt_again = rt_page

\* the round trip of a stolen page, and the kalloc after it
C10_Witness ==
  rt_phase = "regot" /\ rt_core # OwnerOf(rt_page)

\* C11: a kalloc that runs alone and finds every free list empty returns 0
\* after looking at its own list and once at each of the lists 0..NCPU-1,
\* without a panic, with no lock held and with every list as it was; and no
\* kalloc at all returns 0 before the scan is through or with a lock held.
C11_EmptyReturnsNone ==
  \A t \in KTasks :
    /\ kpc[t] = "ka_ret" =>
         /\ \A k \in Cpus : klock[k] # t
         /\ kr[t] = 0 => kj[t] = NCPU
    /\ rt_phase = "alloc" /\ rt_lists = NoLists /\ kpc[t] \in KallocPcs =>
         /\ panicked = ""
         /\ Lists = NoLists
         /\ kj[t] <= NCPU
         /\ kpc[t] = "ka_ret" => kr[t] = 0 /\ kj[t] = NCPU

\* a kalloc that began alone with every list empty is about to return
C11_Witness ==
  \E t \in KTasks :
    rt_phase = "alloc" /\ rt_lists = NoLists /\ kpc[t] = "ka_ret" /\ ki[t] # 0

\* C12: kfree(pa) panics with "kfree" exactly when pa is not a multiple of
\* PGSIZE, or pa < end, or pa >= PHYSTOP; the step that panics changes no
\* free list and no lock; every other kfree pushes pa on top of exactly one
\* free list and leaves the others as they were.
C12_KfreeFatal ==
  [][/\ (panicked' = "kfree") <=> (\E t \in KTasks : kpc'[t] = "kf_panic")
     /\ \A t \in KTasks :
          /\ kpc'[t] = "kf_panic" =>
               kpa'[t] % PGSIZE # 0 \/ kpa'[t] < End \/ kpa'[t] >= PHYSTOP
          /\ kpc'[t] \in {"kf_acq", "kf_push"} =>
               kpa'[t] % PGSIZE = 0 /\ kpa'[t] >= End /\ kpa'[t] < PHYSTOP
          /\ kpc[t] = "idle" /\ kpc'[t] = "kf_panic" =>
               freelist' = freelist /\ knext' = knext /\ klock' = klock
          /\ kpc[t] = "kf_push" /\ kpc'[t] = "idle" =>
               \E k \in Cpus :
                 /\ ListOf(k)' = <<kpa[t]>> \o ListOf(k)
                 /\ \A m \in Cpus \ {k} : ListOf(m)' = ListOf(m)
    ]_vars

\* a kfree of PHYSTOP has panicked while another kfree was on its way
C12_Witness ==
  \E t, u \in KTasks :
    kpc[t] = "kf_panic" /\ kpa[t] = PHYSTOP /\ kpc[u] = "kf_acq"

\* the list a kalloc on core c takes from when the lists are L; NCPU if none
SourceList(L, c) ==
  IF L[c] # <<>> THEN c
  ELSE IF \E k \in Cpus : L[k] # <<>>
       THEN CHOOSE k \in Cpus : L[k] # <<>> /\ \A m \in Cpus : L[m] # <<>> => k <= m
       ELSE NCPU
\* the pages of partition k that are not handed out
FreeOf(k) == {p \in Pages \ outstanding : OwnerOf(p) = k}
\* no page has been freed since kinit, or the lists are as if none had
NeverFreed ==
  /\ \A p \in Pages : knext[p] \in {KinitNext(p), JUNK_ALLOC}
  /\ \A t \in KTasks : kpc[t] \notin {"kf_acq", "kf_push", "kf_panic"}

\* C16: a kalloc that runs alone returns the top of its core's list, or with
\* that list empty the top of the lowest-indexed non-empty list, or 0, and
\* takes exactly that address off that list; while no page has been freed
\* since kinit this is the highest free address of the core's partition, and
\* then the highest of the lowest-indexed partition that has one.
C16_StealOrder ==
  \A t \in KTasks :
    rt_phase = "alloc" /\ kpc[t] = "ka_ret" =>
      LET src == SourceList(rt_lists, rt_core) IN
        /\ IF src = NCPU
           THEN kr[t] = 0 /\ Lists = rt_lists
           ELSE /\ kr[t] = Head(rt_lists[src])
                /\ Lists = [rt_lists EXCEPT ![src] = Tail(rt_lists[src])]
        /\ NeverFreed /\ src # NCPU =>
             /\ kr[t] = MaxOf(FreeOf(src))
             /\ src # rt_core =>
                  /\ FreeOf(rt_core) = {}
                  /\ \A k \in Cpus : k < src => FreeOf(k) = {}

\* the last core, its list empty, is about to return a page stolen from
\* list 0 while list 1 holds pages too, and no page has ever been freed
C16_Witness ==
  \E t \in KTasks :
    /\ rt_phase = "alloc" /\ kpc[t] = "ka_ret" /\ NeverFreed
    /\ rt_core = NCPU - 1 /\ rt_lists[rt_core] = <<>>
    /\ rt_lists[0] # <<>> /\ rt_lists[1] # <<>> /\ kr[t] # 0

\* C18: the list the first pop of kalloc has locked and is about to pop is
\* the list of the core the task is running on.
C18_FastPathOwnList ==
  \A t \in KTasks : kpc[t] = "ka_pop" => ki[t] = kcpu[t]

\* C20: a kalloc returns 0 only if every free list was empty at one instant
\* between its call and its return.
C20_NoneOnlyIfAllEmpty ==
  \A t \in KTasks : kpc[t] = "ka_ret" /\ kr[t] = 0 => kempty[t]

\* ---------------------------------------------------------------- bio.c
HoldsShard(t) == \E k \in Buckets : bucket_lock[k] = t
HoldsGlobal(t) == bcache_lock = t
\* the task is at an acquire(&bcache.lock): lines 83 and 150, and a holder
\* about to call bpin or bunpin
AtGlobalAcquire(t) == pc[t] \in {"g_acq", "rl_acq", "held"}
\* the task is at an acquire of a shard lock: lines 70 and 89
AtShardAcquire(t) == pc[t] \in {"f_acq", "g_sacq"}

\* C14: no task is at an acquire of the global lock while it holds a shard
\* lock, none is at an acquire of a shard lock while it holds the global
\* lock, and none holds a shard lock and the global lock together.
C14_NeverBothLocks ==
  \A t \in Tasks :
    /\ AtGlobalAcquire(t) => ~HoldsShard(t)
    /\ AtShardAcquire(t) => ~HoldsGlobal(t)
    /\ ~(HoldsShard(t) /\ HoldsGlobal(t))

\* C14 as amended: no task is at an acquire of the global lock while it
\* holds a shard lock; a task is at an acquire of a shard lock with the
\* global lock held only at line 89, and holds both only in lines 90-91,
\* the shard being the one of the entry it installs.
C14_GlobalThenShard ==
  \A t \in Tasks :
    /\ AtGlobalAcquire(t) => ~HoldsShard(t)
    /\ AtShardAcquire(t) /\ HoldsGlobal(t) => pc[t] = "g_sacq" /\ ~HoldsShard(t)
    /\ HoldsShard(t) /\ HoldsGlobal(t) =>
         /\ pc[t] = "g_install"
         /\ \A k \in Buckets : bucket_lock[k] = t => k = ShardOf(b[t])

\* a task has taken the shard lock at line 89 under the global lock while
\* another waits for the global lock
C14_Witness ==
  \E t, u \in Tasks :
    pc[t] = "g_install" /\ HoldsShard(t) /\ HoldsGlobal(t) /\ pc[u] = "g_acq"

\* C17: at a quiescent point every entry with refcnt 0 has time 0.
C17_TimeZeroWhenFree ==
  Quiescent => \A e \in Bufs : refcnt[e] = 0 => time[e] = 0

\* the positions of a task between lines 104 and 109
MissPcs == {"m_dev", "m_blockno", "m_valid", "m_refcnt", "m_time"}

\* C19: the recycle loop picks the lowest-indexed entry with refcnt 0,
\* whatever the time fields are; when bget releases the global lock the
\* entry has the requested dev and blockno, valid 0 and refcnt 1; the steps
\* of lines 104-109 change no other entry and no shard's reference.
C19_RecycleFirstFree ==
  [][\A t \in Tasks :
       /\ pc[t] = "m_scan" /\ pc'[t] = "m_dev" =>
            refcnt[b'[t]] = 0 /\ \A e \in Bufs : e < b'[t] => refcnt[e] # 0
       /\ pc[t] = "m_time" /\ pc'[t] = "sleep" =>
            /\ dev'[b[t]] = req_dev[t] /\ blockno'[b[t]] = req_blockno[t]
            /\ ~valid'[b[t]] /\ refcnt'[b[t]] = 1
       /\ pc[t] \in MissPcs /\ pc'[t] # pc[t] =>
            /\ bucket_buf' = bucket_buf
            /\ \A e \in Bufs \ {b[t]} :
                 /\ dev'[e] = dev[e] /\ blockno'[e] = blockno[e]
                 /\ valid'[e] = valid[e] /\ refcnt'[e] = refcnt[e]
                 /\ time'[e] = time[e]
    ]_vars

\* the task has a reference on b that it has counted and not given back
CountedPcs == HoldPcs \cup {"f_time", "g_time", "g_sacq", "g_install", "g_rel",
                            "m_time", "sleep", "rl_acq", "rl_load", "rl_store"}
Accounted(e) == pins[e] > 0 \/ \E t \in Tasks : pc[t] \in CountedPcs /\ b[t] = e

\* C13: when a task panics with "bget: no buffers" it stands at line 114
\* with the global lock, no entry has its (dev, blockno), every entry has
\* refcnt > 0, and every entry is held, awaited or pinned.
C13_PanicOnlyWhenExhausted ==
  [][\A t \in Tasks :
       pc[t] # "m_panic" /\ pc'[t] = "m_panic" =>
         /\ pc[t] = "m_scan" /\ i[t] = NBUF /\ HoldsGlobal(t)
         /\ panicked' = "bget: no buffers"
         /\ \A e \in Bufs : ~KeyMatch(e, req_dev[t], req_blockno[t])
         /\ \A e \in Bufs : refcnt[e] # 0
         /\ \A e \in Bufs : Accounted(e)]_vars

\* task t spins at an acquire() of a spinlock that task u holds
WaitsFor(t, u) ==
  \/ pc[t] = "f_acq" /\ bucket_lock[i[t]] = u
  \/ pc[t] = "g_sacq" /\ bucket_lock[ShardOf(i[t])] = u
  \/ pc[t] \in {"g_acq", "rl_acq"} /\ bcache_lock = u
\* the task spins at an acquire() of a spinlock
Spinning(t) == pc[t] \in {"f_acq", "g_sacq", "g_acq", "rl_acq"}
\* the task is blocked in acquiresleep, or in the disk I/O of bread
Blocked(t) == pc[t] \in {"sleep", "rd_disk"}

\* no set of tasks each spins on a lock held inside the set, and no task
\* holds a spinlock while blocked or between the calls of its caller
NoSpinCycle ==
  /\ \A S \in SUBSET Tasks :
       S # {} => \E t \in S : \A u \in S : ~WaitsFor(t, u)
  /\ \A t \in Tasks :
       Blocked(t) \/ pc[t] \in {"idle", "held"} => ~HoldsShard(t) /\ ~HoldsGlobal(t)

\* task t spins on a lock held by a task that has panicked: panic() at
\* line 114 does not return, and bget holds bcache.lock there
StuckBehindPanic(t) == \E u \in Tasks : pc[u] = "m_panic" /\ WaitsFor(t, u)

\* C15 as stated: no reachable state has a cycle of tasks each spinning on a
\* spinlock held by the next; no task holds a spinlock while blocked in
\* acquiresleep or in disk I/O; and with every core going on, every task
\* spinning at an acquire() gets the lock.
C15_AlwaysAcquired ==
  /\ []NoSpinCycle
  /\ \A t \in Tasks : Spinning(t) ~> ~Spinning(t)

\* C15, amended: no cycle of spinners, no spinlock held while blocked, and
\* with every core going on a task spinning at an acquire() gets the lock,
\* or spins on the global lock behind a task that has panicked at line 114.
C15_SpinlocksAcquired ==
  /\ []NoSpinCycle
  /\ \A t \in Tasks : Spinning(t) ~> (~Spinning(t) \/ StuckBehindPanic(t))

\* a task spins on the global lock behind a task that has panicked at line
\* 114 with every entry in use: each refcnt is the holders plus the pins
C15_Witness ==
  \E t \in Tasks :
    /\ StuckBehindPanic(t)
    /\ \A e \in Bufs :
         /\ Accounted(e)
         /\ refcnt[e] = pins[e] + Cardinality({u \in Tasks : pc[u] \in CountedPcs /\ b[u] = e})

====
